---- MODULE Spec2Model ----
(***************************************************************************)
(* Model of the AI CRM ML engine (src/ml-engine/main.py).                  *)
(*                                                                         *)
(* Spec        the service: the two dispatching endpoints                  *)
(*             (process_customers, upload_csv), the background job         *)
(*             (process_customers_background) and the files it owns.       *)
(***************************************************************************)
EXTENDS Integers, Sequences, FiniteSets, TLC

(***************************************************************************)
(* Bounds of the model.                                                    *)
(***************************************************************************)
\* requests the service receives in one behaviour
MaxReqs == 2
\* a value of LARGE_DATASET_THRESHOLD other than the default
SmallThreshold == 3

(***************************************************************************)
(* Program constants.                                                      *)
(***************************************************************************)
\* os.getenv("LARGE_DATASET_THRESHOLD", "200000")
DefaultThreshold == 200000
\* upload_csv: if n > 200000
CsvThreshold == 200000
\* np.random.randint(1e6) draws from 0..RandHigh - 1
RandHigh == 1000000

VARIABLES
    LARGE_THRESHOLD,  \* the configured LARGE_DATASET_THRESHOLD of the process
    now,              \* int(time.time())
    req,              \* per request: endpoint, row count, position, response
    job,              \* per request: the background job it dispatched
    tmpFiles,         \* /tmp/<job_id>.parquet : job ids whose file exists -> content
    resultFiles,      \* models/<job_id>_results.json : the files that exist
    loop,             \* the request whose handler occupies the event loop (0: none)
    df,               \* the data frame of one pipeline run: a sequence of rows
    dpc,              \* how far that run has come
    segments,         \* what perform_customer_segmentation_large returned
    churn,            \* perform_churn_prediction_large: model_tuple, batch loop, probs
    opps,             \* what detect_upsell_opportunities_large returned
    force_rule_based, \* the argument of perform_customer_segmentation_large
    ksel,             \* choose_k_sampled: its inputs, loop position, best_k, best_score
    model_cache,      \* _model_cache["churn_model"]
    runs              \* two pipeline runs in their churn stage: position, own model

svars == <<LARGE_THRESHOLD, now, req, job, tmpFiles, resultFiles, loop>>

xvars == <<force_rule_based, ksel, model_cache, runs>>

dvars == <<df, dpc, segments, churn, opps, force_rule_based, ksel, model_cache, runs>>

vars == <<LARGE_THRESHOLD, now, req, job, tmpFiles, resultFiles, loop,
          df, dpc, segments, churn, opps, force_rule_based, ksel, model_cache, runs>>

Reqs == 1..MaxReqs

\* LARGE_DATASET_THRESHOLD values the model configures
ThresholdValues == {SmallThreshold, DefaultThreshold}

\* row counts the model sends: the empty request, and the sizes around the
\* configured threshold and around the size upload_csv compares with
RowCounts(ep, T) ==
    IF ep = "process_customers" THEN {0, T, T + 1}
    ELSE {0, T, T + 1, CsvThreshold, CsvThreshold + 1}

\* the readings of int(time.time()) the model takes: one second and the next
Seconds == {0, 1}

\* the draws of np.random.randint(1e6) the model takes: both ends of its range
RandValues == {0, RandHigh - 1}

\* the stages of one pipeline run, in the order the code calls them
PipelineStages == <<"features", "segmentation", "churn", "upsell", "insights">>

StageIndex(s) == CHOOSE i \in 1..Len(PipelineStages) : PipelineStages[i] = s

\* the stage after s; "end" after generate_ai_insights
NextStage(s) ==
    IF StageIndex(s) = Len(PipelineStages) THEN "end"
    ELSE PipelineStages[StageIndex(s) + 1]

NoJob == [state |-> "none", id |-> <<>>, failedAt |-> "none", logged |-> FALSE,
          escaped |-> FALSE, removeAttempted |-> FALSE, wrote |-> "none",
          outName |-> <<>>, cacheKeys |-> {}]

IdleReq == [ep |-> "none", n |-> 0, pc |-> "idle", resp |-> "none",
            stage |-> "none", featured |-> FALSE, modeChosen |-> FALSE,
            cacheKeys |-> {}]

\* f"job_{int(time.time())}_{np.random.randint(1e6)}"
job_id(t, rnd) == <<t, rnd>>

\* no pipeline run is followed row by row
\* nothing is being selected and no run is in its churn stage; the cache is
\* as the module sets it: "churn_model": None
XIdle ==
    /\ force_rule_based = FALSE
    /\ ksel = <<>>
    /\ model_cache = [churn_model |-> 0]
    /\ runs = <<>>

NoData ==
    /\ df = <<>>
    /\ dpc = "none"
    /\ segments = <<>>
    /\ churn = <<>>
    /\ opps = <<>>
    /\ XIdle

SvcInit ==
    /\ LARGE_THRESHOLD \in ThresholdValues
    /\ now = 0
    /\ req = [r \in Reqs |-> IdleReq]
    /\ job = [r \in Reqs |-> NoJob]
    /\ tmpFiles = {}
    /\ resultFiles = {}
    /\ loop = 0
    /\ NoData

\* a request arrives at an endpoint with n rows. Both handlers are coroutines
\* of one event loop and never yield once they have their input, so a request
\* is taken up when the handler before it has returned; the clock may have
\* advanced meanwhile
Receive(r) ==
    /\ req[r].pc = "idle"
    /\ r > 1 => req[r - 1].pc = "responded"
    /\ \E t \in {u \in Seconds : u >= now} : now' = t
    /\ \E ep \in {"process_customers", "upload_csv"} :
       \E n \in RowCounts(ep, LARGE_THRESHOLD) :
          req' = [req EXCEPT ![r] = [IdleReq EXCEPT !.ep = ep, !.n = n, !.pc = "recv"]]
    /\ UNCHANGED dvars
    /\ UNCHANGED <<LARGE_THRESHOLD, job, tmpFiles, resultFiles, loop>>

\* the handler returns (or raises HTTPException 500): the response goes out and
\* the event loop is free again
Answer(q, resp) == [q EXCEPT !.pc = "responded", !.resp = resp, !.stage = "none"]

\* a mutant of df_empty: the check for an empty frame is left out
df_empty_unchecked(n) == FALSE

\* df.empty for a frame of n customers
df_empty(n) == n = 0

\* process_customers up to the dispatch decision: the empty check, then
\* n > LARGE_THRESHOLD chooses background (a job id is generated) or synchronous
process_customers(r) ==
    /\ req[r].pc = "recv"
    /\ req[r].ep = "process_customers"
    /\ loop = 0
    /\ IF df_empty(req[r].n)
       THEN /\ req' = [req EXCEPT ![r] = Answer(@, "rejected")]
            /\ UNCHANGED <<job, loop>>
       ELSE IF req[r].n > LARGE_THRESHOLD
       THEN /\ \E rnd \in RandValues :
                 job' = [job EXCEPT ![r].id = job_id(now, rnd)]
            /\ req' = [req EXCEPT ![r].pc = "persist", ![r].modeChosen = TRUE]
            /\ loop' = r
       ELSE /\ req' = [req EXCEPT ![r].pc = "sync", ![r].stage = "features",
                                  ![r].modeChosen = TRUE]
            /\ loop' = r
            /\ UNCHANGED job
    /\ UNCHANGED dvars
    /\ UNCHANGED <<LARGE_THRESHOLD, now, tmpFiles, resultFiles>>

\* upload_csv up to df = create_advanced_features(df), which runs before the
\* size is looked at; any exception becomes HTTPException 500
upload_csv(r) ==
    /\ req[r].pc = "recv"
    /\ req[r].ep = "upload_csv"
    /\ loop = 0
    /\ \/ /\ req' = [req EXCEPT ![r].pc = "dispatch", ![r].featured = TRUE]
          /\ loop' = r
       \/ /\ req' = [req EXCEPT ![r] = Answer(@, "error")]
          /\ UNCHANGED loop
    /\ UNCHANGED dvars
    /\ UNCHANGED <<LARGE_THRESHOLD, now, job, tmpFiles, resultFiles>>

\* upload_csv: if n > 200000 a job id is generated, else the synchronous
\* stages follow (the features are already built)
upload_csv_dispatch(r) ==
    /\ req[r].pc = "dispatch"
    /\ IF req[r].n > CsvThreshold
       THEN /\ \E rnd \in RandValues :
                 job' = [job EXCEPT ![r].id = job_id(now, rnd)]
            /\ req' = [req EXCEPT ![r].pc = "persist", ![r].modeChosen = TRUE]
       ELSE /\ req' = [req EXCEPT ![r].pc = "sync", ![r].stage = "segmentation",
                                  ![r].modeChosen = TRUE]
            /\ UNCHANGED job
    /\ UNCHANGED dvars
    /\ UNCHANGED <<LARGE_THRESHOLD, now, tmpFiles, resultFiles, loop>>

\* the files of a directory after a file called name is written (an existing
\* file of that name is replaced)
WriteFile(files, name, f) == {g \in files : g.name # name} \cup {f}

\* df.to_parquet(tmp_path), then the hand-over to process_customers_background:
\* process_customers schedules it with background_tasks.add_task, upload_csv
\* calls it in the handler
to_parquet(r) ==
    /\ req[r].pc = "persist"
    /\ \/ /\ tmpFiles' = WriteFile(tmpFiles, job[r].id,
                  [name |-> job[r].id, owner |-> r,
                   kind |-> IF req[r].featured THEN "featured" ELSE "raw"])
          /\ IF req[r].ep = "process_customers"
             THEN /\ job' = [job EXCEPT ![r].state = "scheduled"]
                  /\ req' = [req EXCEPT ![r].pc = "return"]
             ELSE /\ job' = [job EXCEPT ![r].state = "load"]
                  /\ req' = [req EXCEPT ![r].pc = "inline"]
          /\ UNCHANGED loop
       \/ /\ req' = [req EXCEPT ![r] = Answer(@, "error")]
          /\ loop' = 0
          /\ UNCHANGED <<job, tmpFiles>>
    /\ UNCHANGED dvars
    /\ UNCHANGED <<LARGE_THRESHOLD, now, resultFiles>>

JobEnded(j) == j.state \in {"done", "failed"}

\* return MLResponse(... data={"job_id": job_id}): process_customers right after
\* add_task, upload_csv once process_customers_background has returned
ReturnJobId(r) ==
    /\ \/ req[r].pc = "return"
       \/ req[r].pc = "inline" /\ JobEnded(job[r])
    /\ req' = [req EXCEPT ![r] = Answer(@, "job")]
    /\ loop' = 0
    /\ UNCHANGED dvars
    /\ UNCHANGED <<LARGE_THRESHOLD, now, job, tmpFiles, resultFiles>>

\* a stage that cannot succeed: StandardScaler.fit_transform raises on a
\* frame of zero rows (only upload_csv lets one through)
MustFail(s, n) == s = "segmentation" /\ n = 0

\* the keys of _model_cache a stage assigns, in the order it assigns them:
\* segmentation the scaler and, on the clustering path, kmeans; churn the
\* model and the time of training
StageCacheKeys(s, n) ==
    IF s = "segmentation"
    THEN IF n >= 50 THEN <<"scaler", "kmeans">> ELSE <<"scaler">>
    ELSE IF s = "churn" THEN <<"churn_model", "last_trained_at">>
    ELSE <<>>

\* the keys assigned when the stage has run to its end
KeysAssigned(s, n) == {StageCacheKeys(s, n)[i] : i \in 1..Len(StageCacheKeys(s, n))}

\* the keys assigned when the stage fails: those before the failing line
KeysBeforeFailure(s, n) ==
    {{StageCacheKeys(s, n)[i] : i \in 1..k} : k \in 0..Len(StageCacheKeys(s, n))}

\* one stage of the synchronous pipeline in the handler: it returns, or raises
\* and the handler answers HTTPException 500
SyncStage(r) ==
    /\ req[r].pc = "sync"
    /\ \/ /\ ~MustFail(req[r].stage, req[r].n)
          /\ req' = [req EXCEPT ![r] =
                 IF NextStage(req[r].stage) = "end"
                 THEN Answer([req[r] EXCEPT !.featured = TRUE], "full")
                 ELSE [req[r] EXCEPT
                          !.stage = NextStage(req[r].stage),
                          !.featured = TRUE,
                          !.cacheKeys = req[r].cacheKeys
                                          \cup KeysAssigned(req[r].stage, req[r].n)]]
          /\ loop' = IF NextStage(req[r].stage) = "end" THEN 0 ELSE loop
       \/ /\ \E ks \in KeysBeforeFailure(req[r].stage, req[r].n) :
                req' = [req EXCEPT ![r] =
                          Answer([req[r] EXCEPT !.cacheKeys = req[r].cacheKeys \cup ks],
                                 "error")]
          /\ loop' = 0
    /\ UNCHANGED dvars
    /\ UNCHANGED <<LARGE_THRESHOLD, now, job, tmpFiles, resultFiles>>

(***************************************************************************)
(* process_customers_background(parquet_path, user_id, job_id)             *)
(***************************************************************************)
\* where a failure happened: in the pipeline (read_parquet .. insights), in
\* open(out_path, "w") or in json.dump
FailPhase(s) == IF s \in {"open", "dump"} THEN s ELSE "pipeline"

\* a mutant of BgExcept: the exception leaves the function
BgExceptReraises(j, s) ==
    [j EXCEPT !.state = "failed", !.failedAt = FailPhase(s), !.escaped = TRUE]

\* except Exception as e: logger.exception(...) -- a stage s raised; nothing
\* else runs, the os.remove of the success path included
BgExcept(j, s) ==
    [j EXCEPT !.state = "failed", !.failedAt = FailPhase(s), !.logged = TRUE]

\* the job may take a step: a task added with background_tasks.add_task runs
\* once the response is sent, on a worker thread; upload_csv's call runs in
\* the handler
BgRunnable(r) ==
    IF req[r].ep = "process_customers" THEN req[r].resp # "none"
    ELSE req[r].pc = "inline"

\* the scheduled task starts
BgStart(r) ==
    /\ job[r].state = "scheduled"
    /\ BgRunnable(r)
    /\ job' = [job EXCEPT ![r].state = "load"]
    /\ UNCHANGED dvars
    /\ UNCHANGED <<LARGE_THRESHOLD, now, req, tmpFiles, resultFiles, loop>>

FileExists(files, name) == \E f \in files : f.name = name

\* df = pd.read_parquet(parquet_path): raises when the file is gone
BgLoad(r) ==
    /\ job[r].state = "load"
    /\ BgRunnable(r)
    /\ \/ /\ FileExists(tmpFiles, job[r].id)
          /\ job' = [job EXCEPT ![r].state = "features"]
       \/ job' = [job EXCEPT ![r] = BgExcept(@, "load")]
    /\ UNCHANGED dvars
    /\ UNCHANGED <<LARGE_THRESHOLD, now, req, tmpFiles, resultFiles, loop>>

\* create_advanced_features .. generate_ai_insights, one call per step
BgStage(r) ==
    /\ job[r].state \in {PipelineStages[i] : i \in 1..Len(PipelineStages)}
    /\ BgRunnable(r)
    /\ \/ /\ ~MustFail(job[r].state, req[r].n)
          /\ job' = [job EXCEPT
                 ![r].state = IF NextStage(@) = "end" THEN "open" ELSE NextStage(@),
                 ![r].cacheKeys = @ \cup KeysAssigned(job[r].state, req[r].n)]
       \/ \E ks \in KeysBeforeFailure(job[r].state, req[r].n) :
             job' = [job EXCEPT ![r] =
                       BgExcept([job[r] EXCEPT !.cacheKeys = job[r].cacheKeys \cup ks],
                                job[r].state)]
    /\ UNCHANGED dvars
    /\ UNCHANGED <<LARGE_THRESHOLD, now, req, tmpFiles, resultFiles, loop>>

\* out_path = os.path.join(MODEL_DIR, f"{job_id}_results.json")
out_path(id) == id

\* with open(out_path, "w") as f: the file is created (or truncated) empty
BgOpen(r) ==
    /\ job[r].state = "open"
    /\ BgRunnable(r)
    /\ \/ /\ resultFiles' = WriteFile(resultFiles, out_path(job[r].id),
                  [name |-> out_path(job[r].id), writer |-> r, content |-> "partial"])
          /\ job' = [job EXCEPT ![r].state = "dump", ![r].wrote = "partial",
                                 ![r].outName = out_path(job[r].id)]
       \/ /\ job' = [job EXCEPT ![r] = BgExcept(@, "open")]
          /\ UNCHANGED resultFiles
    /\ UNCHANGED dvars
    /\ UNCHANGED <<LARGE_THRESHOLD, now, req, tmpFiles, loop>>

\* json.dump({...}, f): writes the result through, or raises part-way and
\* leaves what it wrote
BgDump(r) ==
    /\ job[r].state = "dump"
    /\ BgRunnable(r)
    /\ \/ /\ resultFiles' =
                 {IF f.name = out_path(job[r].id) /\ f.writer = r
                  THEN [f EXCEPT !.content = "complete"] ELSE f : f \in resultFiles}
          /\ job' = [job EXCEPT ![r].state = "remove", ![r].wrote = "complete"]
       \/ /\ job' = [job EXCEPT ![r] = BgExcept(@, "dump")]
          /\ UNCHANGED resultFiles
    /\ UNCHANGED dvars
    /\ UNCHANGED <<LARGE_THRESHOLD, now, req, tmpFiles, loop>>

\* try: os.remove(parquet_path) except Exception: pass
BgRemove(r) ==
    /\ job[r].state = "remove"
    /\ BgRunnable(r)
    /\ tmpFiles' = {f \in tmpFiles : f.name # job[r].id}
    /\ job' = [job EXCEPT ![r].state = "done", ![r].removeAttempted = TRUE]
    /\ UNCHANGED dvars
    /\ UNCHANGED <<LARGE_THRESHOLD, now, req, resultFiles, loop>>

SvcNext ==
    \/ \E r \in Reqs : Receive(r)
    \/ \E r \in Reqs : process_customers(r)
    \/ \E r \in Reqs : upload_csv(r)
    \/ \E r \in Reqs : upload_csv_dispatch(r)
    \/ \E r \in Reqs : to_parquet(r)
    \/ \E r \in Reqs : ReturnJobId(r)
    \/ \E r \in Reqs : SyncStage(r)
    \/ \E r \in Reqs : BgStart(r)
    \/ \E r \in Reqs : BgLoad(r)
    \/ \E r \in Reqs : BgStage(r)
    \/ \E r \in Reqs : BgOpen(r)
    \/ \E r \in Reqs : BgDump(r)
    \/ \E r \in Reqs : BgRemove(r)

Spec == SvcInit /\ [][SvcNext]_vars

(***************************************************************************)
(* Claims about the service.                                               *)
(***************************************************************************)
Dispatched(r) == job[r].id # <<>>

\* process_customers alone routes by the configured threshold
ProcessCustomersRoutesByThreshold ==
    \A r \in Reqs :
        (req[r].ep = "process_customers" /\ req[r].modeChosen)
            => (Dispatched(r) <=> req[r].n > LARGE_THRESHOLD)

\* C3: at every entry point and for every configured threshold T, a request of
\* exactly T rows is processed synchronously (it is answered with the full
\* result and dispatches no job) and a request of T+1 rows is dispatched to the
\* background and answered with a job id only.
C3_DispatchByConfiguredThreshold ==
    \A r \in Reqs :
        /\ (req[r].modeChosen /\ req[r].n = LARGE_THRESHOLD) => ~Dispatched(r)
        /\ (req[r].modeChosen /\ req[r].n = LARGE_THRESHOLD + 1) => Dispatched(r)
        /\ req[r].resp = "full" => req[r].n # LARGE_THRESHOLD + 1
        /\ req[r].resp = "job" => req[r].n # LARGE_THRESHOLD

\* C4: at both entry points the job id is returned without waiting for the
\* pipeline: the caller has its answer no later than the background run ends.
C4_JobIdReturnedWithoutWaiting ==
    \A r \in Reqs : JobEnded(job[r]) => req[r].resp = "job"

\* process_customers does return the job id before its job has even started
ProcessCustomersReturnsFirst ==
    \A r \in Reqs :
        (req[r].ep = "process_customers" /\ job[r].state \notin {"none", "scheduled"})
            => req[r].resp = "job"

\* C5: once a background job has ended, by success or by the failure of any
\* stage, the removal of its input parquet file has been attempted.
C5_InputArtifactRemovalAttempted ==
    \A r \in Reqs : JobEnded(job[r]) => job[r].removeAttempted

WroteFile(r) == \E f \in resultFiles : f.writer = r

\* C6 as stated: a failed job has written no result file.
C6_FailedJobWritesNoFile ==
    \A r \in Reqs : job[r].state = "failed" => ~WroteFile(r)

\* C6 (amended): no exception leaves process_customers_background, a failure
\* is logged; a job that failed before json.dump began has left no result file
\* (one that failed in json.dump has left an incomplete one), and a job that
\* succeeded has written its complete result under the name made from its own
\* job id.
C6_FailureLoggedAndSwallowed ==
    \A r \in Reqs :
        /\ ~job[r].escaped
        /\ job[r].state = "failed" => job[r].logged
        /\ (job[r].state = "failed" /\ job[r].failedAt # "dump")
              => (~WroteFile(r) /\ job[r].wrote = "none")
        /\ (job[r].state = "failed" /\ job[r].failedAt = "dump")
              => job[r].wrote = "partial"
        /\ job[r].state = "done"
              => (job[r].wrote = "complete" /\ job[r].outName = job[r].id)

\* one job failed in a pipeline stage and another ran to its end
C6_Witness ==
    \E r1, r2 \in Reqs :
        /\ job[r1].state = "failed" /\ job[r1].failedAt = "pipeline" /\ job[r1].logged
        /\ job[r2].state = "done"
        /\ \E f \in resultFiles : f.writer = r2 /\ f.content = "complete"

\* C7: any two dispatched jobs have distinct job ids.
C7_JobIdsUnique ==
    \A r1, r2 \in Reqs :
        (r1 # r2 /\ Dispatched(r1) /\ Dispatched(r2)) => job[r1].id # job[r2].id

(***************************************************************************)
(* The pipeline on the rows of one data frame.                             *)
(*                                                                         *)
(* Numbers are exact: a missing value (None, NaN, NaT) is NaN == <<>>, a   *)
(* present one is <<v>>; value_score is the fraction <<num, den>>.         *)
(***************************************************************************)
\* rows of the exhaustively enumerated data frames: 1..MaxRows
MaxRows == 3
\* pd.Timestamp.now().normalize(), as a day number
Today == 1000
\* .fillna(999)
RecencySentinel == 999

NaN == <<>>

IsNaN(x) == x = <<>>

RECURSIVE SumSeq(_)
SumSeq(s) == IF s = <<>> THEN 0 ELSE Head(s) + SumSeq(Tail(s))

RECURSIVE InsertAsc(_, _)
InsertAsc(v, s) ==
    IF s = <<>> THEN <<v>>
    ELSE IF v <= Head(s) THEN <<v>> \o s
    ELSE <<Head(s)>> \o InsertAsc(v, Tail(s))

RECURSIVE SortAsc(_)
SortAsc(s) == IF s = <<>> THEN <<>> ELSE InsertAsc(Head(s), SortAsc(Tail(s)))

SeqMax(s) == SortAsc(s)[Len(s)]

SeqMin(s) == SortAsc(s)[1]

\* the present values of a column, in row order (pandas skips NaN in min, max,
\* sum, mean and quantile)
Present(col) ==
    LET kept == SelectSeq(col, LAMBDA x : ~IsNaN(x))
    IN  [i \in 1..Len(kept) |-> kept[i][1]]

\* ten times Series.quantile(p10 / 10) of the numbers vals (linear
\* interpolation between the two closest ranks); NaN when there are none
Quantile10(vals, p10) ==
    IF vals = <<>> THEN NaN
    ELSE LET srt == SortAsc(vals)
             pos == (Len(vals) - 1) * p10
             lo  == (pos \div 10) + 1
             hi  == IF lo < Len(vals) THEN lo + 1 ELSE lo
         IN  <<10 * srt[lo] + (pos % 10) * (srt[hi] - srt[lo])>>

\* a row as it arrives: the CustomerDataIn fields the pipeline reads, and the
\* columns the pipeline adds later, not yet there
RawRow(id, spent, eng, freq, days, lid) ==
    [customer_id |-> id, total_spent |-> spent, engagement_score |-> eng,
     purchase_frequency |-> freq, days_since_last_purchase |-> days,
     last_interaction_date |-> lid,
     recency |-> NaN, frequency |-> NaN, monetary |-> NaN,
     high_engagement |-> NaN, low_engagement |-> NaN, recent_activity |-> NaN,
     value_score |-> NaN, segment |-> NaN, churn_label |-> NaN,
     churn_probability |-> NaN, upsell_score |-> NaN]

\* parse_and_fill_dates: the days_since_last_purchase column after it. When
\* any row lacks the value the whole column is recomputed from
\* last_interaction_date (999 where that is missing too)
parse_and_fill_dates(d) ==
    IF \E i \in 1..Len(d) : IsNaN(d[i].days_since_last_purchase)
    THEN [i \in 1..Len(d) |->
            IF IsNaN(d[i].last_interaction_date) THEN RecencySentinel
            ELSE Today - d[i].last_interaction_date[1]]
    ELSE [i \in 1..Len(d) |-> d[i].days_since_last_purchase[1]]

\* a mutant of value_score: no check for max_v == min_v, the division by
\* zero gives NaN
value_score_unguarded(d, i) ==
    LET spent == Present([j \in 1..Len(d) |-> d[j].total_spent])
    IN  IF spent = <<>> \/ SeqMax(spent) = SeqMin(spent) \/ IsNaN(d[i].total_spent)
        THEN NaN
        ELSE <<d[i].total_spent[1] - SeqMin(spent), SeqMax(spent) - SeqMin(spent)>>

\* value_score of row i: 0.0 for every row when min or max is NaN or they are
\* equal, else (total_spent - min_v) / (max_v - min_v), NaN where total_spent is
value_score(d, i) ==
    LET spent == Present([j \in 1..Len(d) |-> d[j].total_spent])
    IN  IF spent = <<>> \/ SeqMax(spent) = SeqMin(spent) THEN <<0, 1>>
        ELSE IF IsNaN(d[i].total_spent) THEN NaN
        ELSE <<d[i].total_spent[1] - SeqMin(spent), SeqMax(spent) - SeqMin(spent)>>

Bit(b) == IF b THEN 1 ELSE 0

\* create_advanced_features(df): the frame with its derived columns
create_advanced_features(d) ==
    LET days == parse_and_fill_dates(d)
    IN  [i \in 1..Len(d) |->
          [d[i] EXCEPT
             !.days_since_last_purchase = days[i],
             !.recency = days[i],
             !.frequency = d[i].purchase_frequency,
             !.monetary = IF IsNaN(d[i].total_spent) THEN 0 ELSE d[i].total_spent[1],
             !.high_engagement = Bit(d[i].engagement_score > 80),
             !.low_engagement = Bit(d[i].engagement_score < 40),
             !.recent_activity = Bit(days[i] < 90),
             !.value_score = value_score(d, i)]]

\* all sequences of 1..n elements of S
SeqsUpTo(S, n) == UNION {[1..k -> S] : k \in 1..n}

\* df = create_advanced_features(df)
FeatureBuilder ==
    /\ dpc = "raw"
    /\ df' = create_advanced_features(df)
    /\ dpc' = "featured"
    /\ UNCHANGED <<segments, churn, opps>>
    /\ UNCHANGED svars
    /\ UNCHANGED xvars

\* the service is not running
SvcIdle ==
    /\ LARGE_THRESHOLD = DefaultThreshold
    /\ now = 0
    /\ req = [r \in Reqs |-> IdleReq]
    /\ job = [r \in Reqs |-> NoJob]
    /\ tmpFiles = {}
    /\ resultFiles = {}
    /\ loop = 0

(***************************************************************************)
(* SpecFeat: create_advanced_features on every frame of 1..MaxRows rows.   *)
(***************************************************************************)
\* total_spent: missing, or one of three amounts
FeatSpent == {NaN, <<0>>, <<500>>, <<1000>>}

\* days_since_last_purchase and last_interaction_date: missing or given
FeatRows ==
    {RawRow(1, sp, 50, 1, days, lid) :
        sp \in FeatSpent, days \in {NaN, <<30>>}, lid \in {NaN, <<900>>}}

FeatInit ==
    /\ SvcIdle
    /\ df \in SeqsUpTo(FeatRows, MaxRows)
    /\ dpc = "raw"
    /\ segments = <<>>
    /\ churn = <<>>
    /\ opps = <<>>
    /\ XIdle

FeatNext == FeatureBuilder

SpecFeat == FeatInit /\ [][FeatNext]_vars

\* total_spent is the same wherever it is present
ConstantSpend ==
    \A i, j \in 1..Len(df) :
        (~IsNaN(df[i].total_spent) /\ ~IsNaN(df[j].total_spent))
            => df[i].total_spent = df[j].total_spent

Defined01(v) == ~IsNaN(v) /\ v[2] > 0 /\ 0 <= v[1] /\ v[1] <= v[2]

\* C10: value_score is 0 for every row when total_spent is the same for all
\* rows; otherwise every value_score is defined and within [0,1], a row of
\* minimum total_spent gets 0 and a row of maximum total_spent gets 1.
C10_ValueScore ==
    dpc = "featured" =>
        LET spent == Present([j \in 1..Len(df) |-> df[j].total_spent])
        IN  IF ConstantSpend
            THEN \A i \in 1..Len(df) : df[i].value_score = <<0, 1>>
            ELSE \A i \in 1..Len(df) :
                   /\ Defined01(df[i].value_score)
                   /\ df[i].total_spent = <<SeqMin(spent)>> => df[i].value_score[1] = 0
                   /\ df[i].total_spent = <<SeqMax(spent)>>
                        => df[i].value_score[1] = df[i].value_score[2]

\* what holds of the code: the same, when no row lacks total_spent
ValueScoreOfPresentSpend ==
    (\A i \in 1..Len(df) : ~IsNaN(df[i].total_spent)) => C10_ValueScore

(***************************************************************************)
(* perform_customer_segmentation_large                                     *)
(***************************************************************************)
\* if len(df) < 50
RuleLimit == 50
\* k_max = min(10, len(df) - 1)
KMaxCap == 10

\* a mutant of get_rule_based_segment: the third rung is tried before the
\* first two
get_rule_based_segment_unordered(row) ==
    LET has_value == ~IsNaN(row.total_spent)
        avg_value == IF has_value THEN row.total_spent[1] ELSE 0
        avg_engagement == row.engagement_score
        days_since == row.days_since_last_purchase
    IN  IF avg_engagement < 40 \/ days_since > 180 THEN 2
        ELSE IF has_value /\ avg_value > 150000 /\ avg_engagement > 80 THEN 0
        ELSE IF has_value /\ avg_value > 75000 /\ avg_engagement > 60 THEN 1
        ELSE 3

\* get_rule_based_segment(row); a comparison with a NaN total_spent is False
get_rule_based_segment(row) ==
    LET has_value == ~IsNaN(row.total_spent)
        avg_value == IF has_value THEN row.total_spent[1] ELSE 0
        avg_engagement == row.engagement_score
        days_since == row.days_since_last_purchase
    IN  IF has_value /\ avg_value > 150000 /\ avg_engagement > 80 THEN 0
        ELSE IF has_value /\ avg_value > 75000 /\ avg_engagement > 60 THEN 1
        ELSE IF avg_engagement < 40 \/ days_since > 180 THEN 2
        ELSE 3

\* the row of X = df[features].fillna(0.0) for a row of the frame
FeatureVector(row) ==
    <<row.recency, row.frequency, row.monetary, row.engagement_score,
      IF IsNaN(row.value_score) THEN 0 ELSE row.value_score[1]>>

\* the k choose_k_sampled may return for n >= 50 rows: best_k starts at 2 and
\* is only replaced by a candidate in 2..min(k_max, len(Xs) - 1)
ChosenKs(n) == {k \in 2..KMaxCap : k <= n - 1}

\* the labels df["segment"] may get: the rule ladder row by row, or the labels
\* of MiniBatchKMeans(n_clusters = k).fit_predict, which lie in 0..k-1 and are
\* the same for rows of the same feature vector
SegmentLabels(d, forced) ==
    IF Len(d) < RuleLimit \/ forced
    THEN {[i \in 1..Len(d) |-> get_rule_based_segment(d[i])]}
    ELSE LET vecs == {FeatureVector(d[i]) : i \in 1..Len(d)}
         IN  {[i \in 1..Len(d) |-> f[FeatureVector(d[i])]] :
                 f \in UNION {[vecs -> 0..(k - 1)] : k \in ChosenKs(Len(d))}}

\* a mutant of SegmentRows: the rows of this and of every later segment
SegmentRowsFrom(d, seg_id) == SelectSeq(d, LAMBDA row : row.segment >= seg_id)

\* seg_df = df[df["segment"] == seg_id]
SegmentRows(d, seg_id) == SelectSeq(d, LAMBDA row : row.segment = seg_id)

\* a set of numbers as the ascending sequence sorted(...) gives
RECURSIVE SortedSet(_)
SortedSet(S) ==
    IF S = {} THEN <<>>
    ELSE LET m == CHOOSE x \in S : \A y \in S : x <= y
         IN  <<m>> \o SortedSet(S \ {m})

\* get_segment_name(segment_id, segment_data); means and quantiles skip NaN and
\* a comparison with NaN is False
get_segment_name(seg) ==
    LET spent == Present([i \in 1..Len(seg) |-> seg[i].total_spent])
        eng   == SumSeq([i \in 1..Len(seg) |-> seg[i].engagement_score])
        days  == SumSeq([i \in 1..Len(seg) |-> seg[i].days_since_last_purchase])
        n     == Len(seg)
        above(p10) == /\ spent # <<>>
                      /\ 10 * SumSeq(spent) > Quantile10(spent, p10)[1] * Len(spent)
    IN  IF above(7) /\ eng > 80 * n THEN "High Value Champions"
        ELSE IF above(5) /\ eng > 60 * n THEN "Loyal Customers"
        ELSE IF eng < 40 * n \/ days > 180 * n THEN "At Risk"
        ELSE "Growth Potential"

\* the summaries built for seg_id in sorted(df["segment"].unique())
\* (avgEngagement and avgValue, two means, are left out)
SegmentSummaries(d) ==
    LET ids == SortedSet({d[i].segment : i \in 1..Len(d)})
    IN  [s \in 1..Len(ids) |->
           LET seg_df == SegmentRows(d, ids[s])
           IN  [name |-> get_segment_name(seg_df),
                count |-> Len(seg_df),
                revenue |-> SumSeq(Present([i \in 1..Len(seg_df) |-> seg_df[i].total_spent])),
                customers |-> [i \in 1..Len(seg_df) |-> seg_df[i].customer_id]]]

\* segments = perform_customer_segmentation_large(df, force_rule_based)
Segmentation ==
    /\ dpc = "featured"
    /\ \E labels \in SegmentLabels(df, force_rule_based) :
          LET labelled == [i \in 1..Len(df) |-> [df[i] EXCEPT !.segment = labels[i]]]
          IN  /\ df' = labelled
              /\ segments' = SegmentSummaries(labelled)
    /\ dpc' = "segmented"
    /\ UNCHANGED <<churn, opps>>
    /\ UNCHANGED svars
    /\ UNCHANGED xvars

(***************************************************************************)
(* SpecSeg: segmentation of every small frame over five kinds of customer  *)
(* (one per rung of the rule ladder, one without total_spent) and of       *)
(* frames of 49, 50 and 51 rows that alternate two kinds.                  *)
(***************************************************************************)
SegProfiles ==
    {<< <<200000>>, 90, 30>>, << <<100000>>, 70, 30>>, << <<1000>>, 30, 30>>,
     << <<1000>>, 50, 30>>, <<NaN, 50, 200>>, << <<100000>>, 70, 200>>}

SegRow(id, p) == RawRow(id, p[1], p[2], 1, <<p[3]>>, NaN)

SegSmallRows == {SegRow(id, p) : id \in {1, 2}, p \in SegProfiles}

\* n rows, kind a at the odd and kind b at the even places; the customer ids
\* are all different, or every id is used by two rows
SegPatternFrame(n, a, b, dup) ==
    [i \in 1..n |-> SegRow(IF dup THEN (i + 1) \div 2 ELSE i,
                           IF i % 2 = 1 THEN a ELSE b)]

SegFrames ==
    SeqsUpTo(SegSmallRows, MaxRows)
    \cup {SegPatternFrame(n, a, b, dup) :
            n \in {10, RuleLimit - 1, RuleLimit, RuleLimit + 1},
            a \in SegProfiles, b \in SegProfiles, dup \in BOOLEAN}

SegInit ==
    /\ SvcIdle
    /\ df \in SegFrames
    /\ dpc = "raw"
    /\ segments = <<>>
    /\ churn = <<>>
    /\ opps = <<>>
    /\ force_rule_based \in BOOLEAN
    /\ ksel = <<>>
    /\ model_cache = [churn_model |-> 0]
    /\ runs = <<>>

SegNext == FeatureBuilder \/ Segmentation

SpecSeg == SegInit /\ [][SegNext]_vars

\* how often x occurs in a sequence
CountIn(seq, x) == Cardinality({i \in 1..Len(seq) : seq[i] = x})

InputIds == {df[i].customer_id : i \in 1..Len(df)}

SegmentsHolding(id) ==
    {s \in 1..Len(segments) : CountIn(segments[s].customers, id) > 0}

CountsSumToRows ==
    SumSeq([s \in 1..Len(segments) |-> segments[s].count]) = Len(df)

\* C1 as stated: every input customer id is in the customers list of exactly
\* one segment, and the segment counts sum to the number of input rows.
C1_EveryIdInExactlyOneSegment ==
    dpc = "segmented" =>
        /\ \A id \in InputIds : Cardinality(SegmentsHolding(id)) = 1
        /\ CountsSumToRows

\* C1 (amended): the segments partition the input rows: every customer id is
\* listed, over all segments together, exactly as often as the input has rows
\* of that id (so an id of one row is in exactly one segment, once), no other
\* id is listed, each count is the length of its customers list, and the
\* counts sum to the number of input rows.
C1_SegmentsPartitionRows ==
    dpc = "segmented" =>
        /\ \A id \in InputIds :
              SumSeq([s \in 1..Len(segments) |-> CountIn(segments[s].customers, id)])
                 = CountIn([i \in 1..Len(df) |-> df[i].customer_id], id)
        /\ \A id \in InputIds :
              CountIn([i \in 1..Len(df) |-> df[i].customer_id], id) = 1
                 => Cardinality(SegmentsHolding(id)) = 1
        /\ \A s \in 1..Len(segments) :
              /\ segments[s].count = Len(segments[s].customers)
              /\ segments[s].count > 0
              /\ \A j \in 1..Len(segments[s].customers) :
                    segments[s].customers[j] \in InputIds
        /\ CountsSumToRows

\* the clustering path has put the two rows of one customer id into two
\* segments
C1_Witness ==
    /\ dpc = "segmented"
    /\ Len(df) >= RuleLimit
    /\ Len(segments) >= 2
    /\ \E i \in 1..Len(df) : df[i].segment > 3
    /\ \E id \in InputIds : Cardinality(SegmentsHolding(id)) = 2

(***************************************************************************)
(* perform_churn_prediction_large                                          *)
(***************************************************************************)
\* batch_size = 50000
BatchSize == 50000
\* TRAIN_SAMPLE_SIZE: frames of the model are never larger, so X_train = X
TrainSampleSize == 10000

\* a column as a list whose entries are computed once
AsList(col) == col \o <<>>

\* ten times churn_score of a row: 0.4, 0.3, 0.2 and 0.1 for the four signs;
\* q30 is ten times df["total_spent"].quantile(0.3), or NaN
churn_score(row, q30) ==
    4 * Bit(row.days_since_last_purchase > 180)
    + 3 * Bit(row.engagement_score < 30)
    + 2 * Bit(row.purchase_frequency = 0)
    + Bit(~IsNaN(row.total_spent) /\ ~IsNaN(q30) /\ 10 * row.total_spent[1] < q30[1])

\* the index of Series.nlargest(k): the k largest, the earlier row on a tie
nlargest(scores, k) ==
    {i \in 1..Len(scores) :
        Cardinality({j \in 1..Len(scores) :
            scores[j] > scores[i] \/ (scores[j] = scores[i] /\ j < i)}) < k}

\* the index of Series.nsmallest(k)
nsmallest(scores, k) ==
    {i \in 1..Len(scores) :
        Cardinality({j \in 1..Len(scores) :
            scores[j] < scores[i] \/ (scores[j] = scores[i] /\ j < i)}) < k}

\* max(1, len(df) // 20)
ForcedCount(n) == IF n \div 20 > 1 THEN n \div 20 ELSE 1

\* the churn_label column: churn_score >= its 0.7 quantile, then the two
\* "ensure variety" corrections, one after the other
churn_labels(d) ==
    LET n      == Len(d)
        q30    == Quantile10(Present(AsList([j \in 1..n |-> d[j].total_spent])), 3)
        scores == AsList([i \in 1..n |-> churn_score(d[i], q30)])
        churn_threshold == Quantile10(scores, 7)[1]
        lab0   == AsList([i \in 1..n |-> Bit(10 * scores[i] >= churn_threshold)])
        top    == nlargest(scores, ForcedCount(n))
        lab1   == IF SumSeq(lab0) = 0
                  THEN AsList([i \in 1..n |-> IF i \in top THEN 1 ELSE lab0[i]])
                  ELSE lab0
        bottom == nsmallest(scores, ForcedCount(n))
    IN  IF SumSeq(lab1) = n
        THEN AsList([i \in 1..n |-> IF i \in bottom THEN 0 ELSE lab1[i]])
        ELSE lab1

\* the first lines of perform_churn_prediction_large, up to y = df["churn_label"]
ChurnLabels ==
    /\ dpc = "featured"
    /\ LET y == churn_labels(df)
       IN  df' = [i \in 1..Len(df) |-> [df[i] EXCEPT !.churn_label = y[i]]]
    /\ dpc' = "labelled"
    /\ UNCHANGED <<segments, churn, opps>>
    /\ UNCHANGED svars
    /\ UNCHANGED xvars

\* a row of X = df[features].fillna(0.0); engagement_score stands for
\* engagement_normalized, which is engagement_score / 100, and the numerator
\* of value_score for value_score, whose denominator the rows share
ChurnFeatures(row) ==
    <<row.recency, row.frequency, row.monetary, row.engagement_score,
      row.high_engagement, row.low_engagement, row.recent_activity,
      IF IsNaN(row.value_score) THEN 0 ELSE row.value_score[1]>>

\* the probabilities, in hundredths, a fitted model gives
ProbValues == {0, 39, 40, 69, 70, 100}

\* the batch sizes of the model: the code's, and two that split small frames
BatchSizes == {1, 2, BatchSize}

\* model_tuple = build_churn_model_scaled(X_train, y_train): the backend, the
\* classes the labels held, and the fitted model as the value it gives each row
\* of features (tree ensembles score a row by itself)
ChurnModels(d) ==
    LET vecs == {ChurnFeatures(d[i]) : i \in 1..Len(d)}
    IN  [typ : {"xgboost", "sklearn"},
         classes : {{d[i].churn_label : i \in 1..Len(d)}},
         f : [vecs -> ProbValues]]

\* build the model, then batch_size = 50000 and probs = np.zeros(n)
Train ==
    /\ dpc = "labelled"
    /\ Len(df) <= TrainSampleSize
    /\ \E model_tuple \in ChurnModels(df) :
       \E batch_size \in BatchSizes :
          churn' = [model_tuple |-> model_tuple, batch_size |-> batch_size,
                    start |-> 0,
                    probs |-> [i \in 1..Len(df) |-> 0],
                    writes |-> [i \in 1..Len(df) |-> 0],
                    out |-> <<>>]
    /\ dpc' = "predicting"
    /\ UNCHANGED <<df, segments, opps>>
    /\ UNCHANGED svars
    /\ UNCHANGED xvars

\* predict_churn_model(model_tuple, X): one probability per row of X; the
\* sklearn branch gives zeros unless predict_proba has two columns
predict_churn_model(model_tuple, X) ==
    IF model_tuple.typ = "xgboost"
    THEN [i \in 1..Len(X) |-> model_tuple.f[ChurnFeatures(X[i])]]
    ELSE IF Cardinality(model_tuple.classes) = 2
    THEN [i \in 1..Len(X) |-> model_tuple.f[ChurnFeatures(X[i])]]
    ELSE [i \in 1..Len(X) |-> 0]

\* a mutant of BatchEnd: the slice stops one row early
BatchEndShort(start, batch_size, n) ==
    IF start + batch_size - 1 < n THEN start + batch_size - 1 ELSE n

\* end = min(start + batch_size, n)
BatchEnd(start, batch_size, n) ==
    IF start + batch_size < n THEN start + batch_size ELSE n

\* one pass of for start in range(0, n, batch_size): rows start .. end-1
\* (counted from 0) are predicted and written to probs[start:end]
PredictBatch ==
    /\ dpc = "predicting"
    /\ churn.start < Len(df)
    /\ LET end     == BatchEnd(churn.start, churn.batch_size, Len(df))
           X_batch == SubSeq(df, churn.start + 1, end)
           preds   == predict_churn_model(churn.model_tuple, X_batch)
       IN  churn' = [churn EXCEPT
              !.probs = [i \in 1..Len(df) |->
                           IF churn.start < i /\ i <= end
                           THEN preds[i - churn.start] ELSE churn.probs[i]],
              !.writes = [i \in 1..Len(df) |->
                           IF churn.start < i /\ i <= end
                           THEN churn.writes[i] + 1 ELSE churn.writes[i]],
              !.start = churn.start + churn.batch_size]
    /\ UNCHANGED <<df, dpc, segments, opps>>
    /\ UNCHANGED svars
    /\ UNCHANGED xvars

\* get_risk_level(probability), the probability in hundredths
get_risk_level(probability) ==
    IF probability >= 70 THEN "High Risk"
    ELSE IF probability >= 40 THEN "Medium Risk"
    ELSE "Low Risk"

\* a mutant of get_churn_action: 0.7 itself is not yet an intervention
get_churn_action_above(probability) ==
    IF probability > 70
    THEN "Immediate intervention required - schedule call with account manager"
    ELSE IF probability >= 40 THEN "Send re-engagement campaign and follow up"
    ELSE "Monitor and maintain regular contact"

\* get_churn_action(probability)
get_churn_action(probability) ==
    IF probability >= 70
    THEN "Immediate intervention required - schedule call with account manager"
    ELSE IF probability >= 40 THEN "Send re-engagement campaign and follow up"
    ELSE "Monitor and maintain regular contact"

\* the fields of an output object that come from the probability
ChurnOut(row, prob) ==
    [customer_id |-> row.customer_id,
     churn_probability |-> prob,
     risk_level |-> get_risk_level(prob),
     recommended_action |-> get_churn_action(prob)]

\* the loop is over: df["churn_probability"] = probs, and the output objects
ChurnScored ==
    /\ dpc = "predicting"
    /\ churn.start >= Len(df)
    /\ df' = [i \in 1..Len(df) |-> [df[i] EXCEPT !.churn_probability = churn.probs[i]]]
    /\ churn' = [churn EXCEPT
                   !.out = [i \in 1..Len(df) |-> ChurnOut(df[i], churn.probs[i])]]
    /\ dpc' = "scored"
    /\ UNCHANGED <<segments, opps>>
    /\ UNCHANGED svars
    /\ UNCHANGED xvars

(***************************************************************************)
(* SpecChurn: the labels of every small frame over sixteen kinds of        *)
(* customer, and of frames of 20 and 40 rows that alternate two kinds.     *)
(***************************************************************************)
ChurnRows ==
    {RawRow(1, sp, eng, freq, <<days>>, NaN) :
        sp \in {<<100>>, <<1000>>}, eng \in {20, 50}, freq \in {0, 1},
        days \in {30, 200}}

ChurnPatternFrame(n, a, b) == [i \in 1..n |-> IF i % 2 = 1 THEN a ELSE b]

ChurnFrames ==
    SeqsUpTo(ChurnRows, MaxRows)
    \cup {ChurnPatternFrame(n, a, b) : n \in {20, 40}, a \in ChurnRows, b \in ChurnRows}

ChurnInit ==
    /\ SvcIdle
    /\ df \in ChurnFrames
    /\ dpc = "raw"
    /\ segments = <<>>
    /\ churn = <<>>
    /\ opps = <<>>
    /\ XIdle

ChurnNext == FeatureBuilder \/ ChurnLabels

SpecChurn == ChurnInit /\ [][ChurnNext]_vars

LabelSet == {df[i].churn_label : i \in 1..Len(df)}

\* C2: for every non-empty frame the churn_label column holds at least one 0
\* and at least one 1 before the classifier is trained.
C2_BothClassesLabelled ==
    dpc = "labelled" => LabelSet = {0, 1}

\* what holds of the code: both classes from two rows on, all-identical
\* rows included
BothClassesFromTwoRows ==
    (dpc = "labelled" /\ Len(df) >= 2) => LabelSet = {0, 1}

(***************************************************************************)
(* SpecBatch: the batch loop on frames over two kinds of customer, for     *)
(* every fitted model and batch size of the model.                         *)
(***************************************************************************)
BatchRows ==
    {RawRow(1, <<100>>, 20, 0, <<200>>, NaN), RawRow(1, <<1000>>, 50, 1, <<30>>, NaN)}

BatchInit ==
    /\ SvcIdle
    /\ df \in SeqsUpTo(BatchRows, MaxRows)
    /\ dpc = "raw"
    /\ segments = <<>>
    /\ churn = <<>>
    /\ opps = <<>>
    /\ XIdle

BatchNext == FeatureBuilder \/ ChurnLabels \/ Train \/ PredictBatch \/ ChurnScored

SpecBatch == BatchInit /\ [][BatchNext]_vars

\* C9: the probabilities the batch loop wrote are, row for row and in the same
\* order, those of one predict_churn_model call over all rows with the same
\* model, and every row index was written exactly once; while the loop runs
\* this holds of the rows before start and no later row has been written.
C9_BatchedEqualsSingleCall ==
    /\ dpc = "predicting" =>
          \A i \in 1..Len(df) :
             IF i <= churn.start
             THEN /\ churn.writes[i] = 1
                  /\ churn.probs[i] = predict_churn_model(churn.model_tuple, df)[i]
             ELSE churn.writes[i] = 0
    /\ dpc = "scored" =>
          \A i \in 1..Len(df) :
             /\ churn.writes[i] = 1
             /\ df[i].churn_probability = predict_churn_model(churn.model_tuple, df)[i]

\* a frame that is not a multiple of the batch size has been scored in two
\* batches, its rows with different probabilities
C9_Witness ==
    /\ dpc = "scored"
    /\ churn.batch_size = 2
    /\ Len(df) = 3
    /\ df[1].churn_probability # df[2].churn_probability
    /\ df[3].churn_probability # 0

(***************************************************************************)
(* detect_upsell_opportunities_large                                       *)
(***************************************************************************)
\* Series.clip(lower, upper)
clip(x, lower, upper) == IF x < lower THEN lower ELSE IF x > upper THEN upper ELSE x

\* upsell_score of a featured row as the fraction <<num, den>> with
\* den = 73000 * (denominator of value_score), so that every term is whole:
\*   engagement_score/100 * 0.3           = 219 * engagement_score / 73000
\*   value_score * 0.4                    = 29200 * value_score / 73000
\*   recent_activity * 0.2                = 14600 * recent_activity / 73000
\*   (1 - clip(days, 0, 365)/365) * 0.1   = 20 * (365 - clip) / 73000
\* and NaN where value_score is NaN
upsell_score(row) ==
    IF IsNaN(row.value_score) THEN NaN
    ELSE LET vn == row.value_score[1]
             vd == row.value_score[2]
         IN  <<219 * row.engagement_score * vd + 29200 * vn
               + 14600 * row.recent_activity * vd
               + 20 * (365 - clip(row.days_since_last_purchase, 0, 365)) * vd,
               73000 * vd>>

\* a mutant of high_pot_mask: the comparison lets 0.6 itself through
high_pot_mask_geq(score) == ~IsNaN(score) /\ 10 * score[1] >= 6 * score[2]

\* df["upsell_score"] > 0.6; a comparison with NaN is False
high_pot_mask(score) == ~IsNaN(score) /\ 10 * score[1] > 6 * score[2]

\* a >= b for two scores that are not NaN; the scores of one frame share
\* their denominator
ScoreGeq(a, b) == IF a[2] = b[2] THEN a[1] >= b[1] ELSE a[1] * b[2] >= b[1] * a[2]

RECURSIVE InsertDesc(_, _)
InsertDesc(row, s) ==
    IF s = <<>> THEN <<row>>
    ELSE IF ScoreGeq(row.upsell_score, Head(s).upsell_score) THEN <<row>> \o s
    ELSE <<Head(s)>> \o InsertDesc(row, Tail(s))

RECURSIVE sort_values_desc(_)
\* sort_values("upsell_score", ascending=False); which of two rows of equal
\* score comes first is up to the sort and nothing here relies on it
sort_values_desc(rows) ==
    IF rows = <<>> THEN <<>> ELSE InsertDesc(Head(rows), sort_values_desc(Tail(rows)))

\* the fields of an output object that come from the row's columns
UpsellOut(row) ==
    [customer_id |-> row.customer_id, upsell_score |-> row.upsell_score,
     current_value |-> row.total_spent]

\* the whole function: the score column, the filter, the sort and the list
UpsellDetector ==
    /\ dpc = "featured"
    /\ LET scored   == AsList([i \in 1..Len(df) |->
                          [df[i] EXCEPT !.upsell_score = upsell_score(df[i])]])
           high_pot == sort_values_desc(
                          SelectSeq(scored, LAMBDA row : high_pot_mask(row.upsell_score)))
       IN  /\ df' = scored
           /\ opps' = [k \in 1..Len(high_pot) |-> UpsellOut(high_pot[k])]
    /\ dpc' = "upsold"
    /\ UNCHANGED <<segments, churn>>
    /\ UNCHANGED svars
    /\ UNCHANGED xvars

(***************************************************************************)
(* SpecUpsell: frames over twelve kinds of customer, the rows numbered by  *)
(* customer_id; among the scores are 0.3, 0.4, 0.6 exactly, 0.7 and 1.0.   *)
(***************************************************************************)
UpsellRows ==
    {RawRow(0, sp, eng, 1, days, NaN) :
        sp \in {NaN, <<0>>, <<1000>>}, eng \in {0, 100}, days \in {<<0>>, <<400>>}}

UpsellFrames ==
    {[i \in 1..Len(f) |-> [f[i] EXCEPT !.customer_id = i]] :
        f \in SeqsUpTo(UpsellRows, MaxRows)}

UpsellInit ==
    /\ SvcIdle
    /\ df \in UpsellFrames
    /\ dpc = "raw"
    /\ segments = <<>>
    /\ churn = <<>>
    /\ opps = <<>>
    /\ XIdle

UpsellNext == FeatureBuilder \/ UpsellDetector

SpecUpsell == UpsellInit /\ [][UpsellNext]_vars

\* the rows whose score is strictly greater than 0.6
RowsAbove == {i \in 1..Len(df) : high_pot_mask(df[i].upsell_score)}

\* C8: the returned list holds exactly the rows whose upsell_score is strictly
\* greater than 0.6, each once and with its own score (a row at exactly 0.6 or
\* with an undefined score is not in it), in non-increasing score order.
C8_UpsellAboveThresholdDescending ==
    dpc = "upsold" =>
       /\ Len(opps) = Cardinality(RowsAbove)
       /\ \A i \in 1..Len(df) :
             (\E k \in 1..Len(opps) : opps[k].customer_id = df[i].customer_id)
                <=> (~IsNaN(df[i].upsell_score)
                     /\ 10 * df[i].upsell_score[1] > 6 * df[i].upsell_score[2])
       /\ \A k \in 1..Len(opps) :
             opps[k].upsell_score = df[opps[k].customer_id].upsell_score
       /\ \A k \in 1..(Len(opps) - 1) :
             ScoreGeq(opps[k].upsell_score, opps[k + 1].upsell_score)

\* a frame with a row at exactly 0.6, left out, and two rows above it that the
\* sort has put in the other order
C8_Witness ==
    /\ dpc = "upsold"
    /\ \E i \in 1..Len(df) :
          /\ ~IsNaN(df[i].upsell_score)
          /\ 10 * df[i].upsell_score[1] = 6 * df[i].upsell_score[2]
    /\ Len(opps) = 2
    /\ opps[1].customer_id > opps[2].customer_id
    /\ opps[1].upsell_score # opps[2].upsell_score

(***************************************************************************)
(* Recency, record by record (SpecFeat)                                    *)
(***************************************************************************)
\* what the filling of one record alone would give: the provided days, else
\* the days from last_interaction_date to today, else the sentinel
RecencyOfRecord(row) ==
    IF ~IsNaN(row.days_since_last_purchase) THEN row.days_since_last_purchase[1]
    ELSE IF ~IsNaN(row.last_interaction_date) THEN Today - row.last_interaction_date[1]
    ELSE RecencySentinel

\* a step of FeatureBuilder, told by the position of the run
FeatureBuilderStep == dpc = "raw" /\ dpc' = "featured"

\* C11: recency is filled per record: the provided days_since_last_purchase
\* if there is one, else the days from last_interaction_date to now, else 999;
\* a provided value is not changed by another record's missing value.
C11_RecencyPerRecord ==
    [][FeatureBuilderStep =>
         \A i \in 1..Len(df) : df'[i].recency = RecencyOfRecord(df[i])]_dpc

\* what holds of the code: per-record filling when every record of the
\* dataset provides days_since_last_purchase, or none does
RecencyPerRecordWhenUniform ==
    [][(/\ FeatureBuilderStep
        /\ \A i, j \in 1..Len(df) :
              IsNaN(df[i].days_since_last_purchase) = IsNaN(df[j].days_since_last_purchase))
         => \A i \in 1..Len(df) : df'[i].recency = RecencyOfRecord(df[i])]_dpc

(***************************************************************************)
(* The rule ladder and the ten-customer scenario (SpecSeg)                 *)
(***************************************************************************)
\* the ladder as the specification words it, on value, engagement and recency
LadderRung(row) ==
    LET value_above(x) == ~IsNaN(row.total_spent) /\ row.total_spent[1] > x
    IN  CASE value_above(150000) /\ row.engagement_score > 80 -> 0
          [] ~(value_above(150000) /\ row.engagement_score > 80)
             /\ value_above(75000) /\ row.engagement_score > 60 -> 1
          [] ~(value_above(150000) /\ row.engagement_score > 80)
             /\ ~(value_above(75000) /\ row.engagement_score > 60)
             /\ (row.engagement_score < 40 \/ row.recency > 180) -> 2
          [] OTHER -> 3

\* ten customers, each with total_spent 1000, engagement_score 50,
\* purchase_frequency 1 and recency 30
TenAlikeCustomers ==
    /\ Len(df) = 10
    /\ \A i \in 1..Len(df) :
          /\ df[i].total_spent = <<1000>>
          /\ df[i].engagement_score = 50
          /\ df[i].purchase_frequency = 1
          /\ df[i].recency = 30

C12_WitnessForced ==
    /\ dpc = "segmented"
    /\ force_rule_based
    /\ Len(df) = 50
    /\ \E i \in 1..Len(df) :
          /\ df[i].total_spent = <<100000>>
          /\ df[i].recency = 200
          /\ df[i].segment = 1

(***************************************************************************)
(* Risk level and recommended action of the churn output (SpecBatch)       *)
(***************************************************************************)
\* the bucket of a probability, in hundredths, by the thresholds 0.7 and 0.4
RiskBucket(p) == IF p >= 70 THEN "High" ELSE IF p >= 40 THEN "Medium" ELSE "Low"

\* the bucket a risk_level names
BucketOfRisk(level) ==
    CASE level = "High Risk" -> "High"
      [] level = "Medium Risk" -> "Medium"
      [] level = "Low Risk" -> "Low"
      [] OTHER -> "none"

\* the bucket a recommended_action belongs to
BucketOfAction(action) ==
    CASE action = "Immediate intervention required - schedule call with account manager"
            -> "High"
      [] action = "Send re-engagement campaign and follow up" -> "Medium"
      [] action = "Monitor and maintain regular contact" -> "Low"
      [] OTHER -> "none"

\* C13: for every churn probability p in [0,1] the risk_level is High for
\* p >= 0.7, Medium for 0.4 <= p < 0.7 and Low for p < 0.4, and the
\* recommended_action is of the same bucket as the risk_level.
C13_RiskAndActionAgree ==
    dpc = "scored" =>
       \A i \in 1..Len(churn.out) :
          LET o == churn.out[i]
          IN  /\ 0 <= o.churn_probability /\ o.churn_probability <= 100
              /\ BucketOfRisk(o.risk_level) = RiskBucket(o.churn_probability)
              /\ BucketOfAction(o.recommended_action) = BucketOfRisk(o.risk_level)

\* one output holds customers at exactly 0.7 and at exactly 0.4
C13_Witness ==
    /\ dpc = "scored"
    /\ Len(churn.out) = 3
    /\ churn.out[1].churn_probability = 70 /\ churn.out[1].risk_level = "High Risk"
    /\ churn.out[2].churn_probability = 40 /\ churn.out[2].risk_level = "Medium Risk"
    /\ churn.out[3].churn_probability = 70

(***************************************************************************)
(* SpecInput: the Upsell Detector on records as CustomerDataIn accepts     *)
(* them: total_spent and engagement_score are floats of any size and sign  *)
(* and days_since_last_purchase is an optional int.                        *)
(***************************************************************************)
InputRows ==
    {RawRow(0, sp, eng, 1, days, NaN) :
        sp \in {<<0>>, <<1000>>}, eng \in {0 - 100, 0, 100, 150},
        days \in {<<0>>, <<400>>}}

InputFrames ==
    {[i \in 1..Len(f) |-> [f[i] EXCEPT !.customer_id = i]] :
        f \in SeqsUpTo(InputRows, MaxRows)}

InputInit ==
    /\ SvcIdle
    /\ df \in InputFrames
    /\ dpc = "raw"
    /\ segments = <<>>
    /\ churn = <<>>
    /\ opps = <<>>
    /\ XIdle

InputNext == FeatureBuilder \/ UpsellDetector

SpecInput == InputInit /\ [][InputNext]_vars

\* a score that is a number between 0 and 1
InUnitInterval(score) ==
    ~IsNaN(score) /\ 0 <= score[1] /\ score[1] <= score[2]

\* C14: upsell_score lies in [0,1] for every row the Upsell Detector scores,
\* for every record the input model accepts.
C14_UpsellScoreInUnitInterval ==
    dpc = "upsold" => \A i \in 1..Len(df) : InUnitInterval(df[i].upsell_score)

\* what holds of the code: the score is in [0,1] when engagement_score is
\* within 0..100 and the row has a value_score
UpsellScoreInUnitIntervalForEngagementInRange ==
    dpc = "upsold" =>
       \A i \in 1..Len(df) :
          (0 <= df[i].engagement_score /\ df[i].engagement_score <= 100)
             => InUnitInterval(df[i].upsell_score)

(***************************************************************************)
(* The empty request (Spec)                                                *)
(***************************************************************************)
\* request r is a process_customers request with an empty customer list that
\* the handler has dealt with
EmptyRequestHandled(r) ==
    /\ req[r].ep = "process_customers"
    /\ req[r].n = 0
    /\ req[r].pc \notin {"idle", "recv"}

\* C15: a process_customers request with an empty customer list is answered
\* with a failure; no pipeline stage has run for it, no execution mode was
\* chosen, it has no background job, no intermediate or result file, and it
\* has assigned no key of the model cache.
C15_EmptyRequestRejected ==
    \A r \in Reqs :
       EmptyRequestHandled(r) =>
          /\ req[r].pc = "responded"
          /\ req[r].resp = "rejected"
          /\ req[r].stage = "none"
          /\ ~req[r].featured
          /\ ~req[r].modeChosen
          /\ req[r].cacheKeys = {}
          /\ job[r] = NoJob
          /\ loop # r

\* an empty request has been rejected after another request ran the pipeline
\* and filled the model cache
C15_Witness ==
    \E r, q \in Reqs :
       /\ EmptyRequestHandled(r)
       /\ req[r].resp = "rejected"
       /\ req[q].resp = "full"
       /\ req[q].cacheKeys # {}

(***************************************************************************)
(* Execution mode and Feature Builder (Spec)                               *)
(***************************************************************************)
\* C17: on every request the execution mode is chosen before
\* create_advanced_features runs on the request's data, and the file stored
\* for a background job holds the raw input.
C17_ModeChosenBeforeFeatureBuilder ==
    /\ \A r \in Reqs : req[r].featured => req[r].modeChosen
    /\ \A f \in tmpFiles : f.kind = "raw"

\* what holds of the code: the same for the requests of process_customers
ProcessCustomersChoosesModeFirst ==
    /\ \A r \in Reqs :
          (req[r].ep = "process_customers" /\ req[r].featured) => req[r].modeChosen
    /\ \A f \in tmpFiles :
          req[f.owner].ep = "process_customers" => f.kind = "raw"

(***************************************************************************)
(* choose_k_sampled                                                        *)
(***************************************************************************)
\* the largest number of rows of X in the model
MaxSample == 5
\* SILHOUETTE_SAMPLE
SilhouetteSample == 2000
\* k_min: int = 2, and the k_min the caller passes
KMin == 2
\* k_max: int = 8
KMaxDefault == 8
\* best_score = -1.0, in tenths
InitialBestScore == 0 - 10

\* silhouette_score in tenths: a mean of per-sample values in [-1, 1] that
\* cannot all be -1, so it is above -1
SilhouetteValues == {0 - 5, 0, 5}

\* what one candidate k gives: the fit or the scoring raises, the labels hold
\* fewer than two clusters, or a score
CandidateOutcomes ==
    {[kind |-> "error", score |-> 0], [kind |-> "one_cluster", score |-> 0]}
    \cup {[kind |-> "scored", score |-> v] : v \in SilhouetteValues}

\* len(Xs) for idx of size min(n, sample_limit)
SampleSize(n, sample_limit) == IF n < sample_limit THEN n ELSE sample_limit

\* the last k of range(k_min, min(k_max, len(Xs) - 1) + 1)
LastCandidate(k_max, m) == IF k_max < m - 1 THEN k_max ELSE m - 1

\* a mutant of ScoreImproves: an equal score replaces the best too
ScoreImprovesOrTies(score, best_score) == score >= best_score

\* if score > best_score
ScoreImproves(score, best_score) == score > best_score

\* the call: n <= k_min returns 1; else best_k = max(2, k_min),
\* best_score = -1.0 and the loop starts at k_min
choose_k_sampled ==
    /\ ksel # <<>>
    /\ ksel.pc = "called"
    /\ ksel' = IF ksel.n <= KMin
               THEN [ksel EXCEPT !.pc = "returned", !.ret = 1]
               ELSE [ksel EXCEPT !.pc = "loop", !.k = KMin,
                                 !.best_k = IF KMin > 2 THEN KMin ELSE 2,
                                 !.best_score = InitialBestScore]
    /\ UNCHANGED <<df, dpc, segments, churn, opps, force_rule_based, model_cache, runs>>
    /\ UNCHANGED svars

\* one pass of the loop for candidate k
ChooseKPass ==
    /\ ksel # <<>>
    /\ ksel.pc = "loop"
    /\ ksel.k <= LastCandidate(ksel.k_max, SampleSize(ksel.n, ksel.sample_limit))
    /\ LET o == ksel.outcome[ksel.k]
       IN  ksel' = IF o.kind = "scored" /\ ScoreImproves(o.score, ksel.best_score)
                   THEN [ksel EXCEPT !.best_score = o.score, !.best_k = ksel.k,
                                     !.k = ksel.k + 1]
                   ELSE [ksel EXCEPT !.k = ksel.k + 1]
    /\ UNCHANGED <<df, dpc, segments, churn, opps, force_rule_based, model_cache, runs>>
    /\ UNCHANGED svars

\* the loop is over: return best_k
ChooseKReturn ==
    /\ ksel # <<>>
    /\ ksel.pc = "loop"
    /\ ksel.k > LastCandidate(ksel.k_max, SampleSize(ksel.n, ksel.sample_limit))
    /\ ksel' = [ksel EXCEPT !.pc = "returned", !.ret = ksel.best_k]
    /\ UNCHANGED <<df, dpc, segments, churn, opps, force_rule_based, model_cache, runs>>
    /\ UNCHANGED svars

(***************************************************************************)
(* SpecK: every call with 1..MaxSample rows, three k_max, two sample       *)
(* limits and every outcome of every candidate.                            *)
(***************************************************************************)
KCalls ==
    UNION {[n : {n}, k_max : {k_max}, sample_limit : {sample_limit},
            outcome : [KMin..LastCandidate(k_max, SampleSize(n, sample_limit))
                          -> CandidateOutcomes],
            pc : {"called"}, k : {0}, best_k : {0}, best_score : {0}, ret : {0}] :
              n \in 1..MaxSample, k_max \in {2, 3, KMaxDefault},
              sample_limit \in {3, SilhouetteSample}}

KInit ==
    /\ SvcIdle
    /\ df = <<>>
    /\ dpc = "none"
    /\ segments = <<>>
    /\ churn = <<>>
    /\ opps = <<>>
    /\ force_rule_based = FALSE
    /\ ksel \in KCalls
    /\ model_cache = [churn_model |-> 0]
    /\ runs = <<>>

KNext == choose_k_sampled \/ ChooseKPass \/ ChooseKReturn

SpecK == KInit /\ [][KNext]_vars

\* the candidates of the call and those among them that were scored
Candidates == KMin..LastCandidate(ksel.k_max, SampleSize(ksel.n, ksel.sample_limit))

Scored == {k \in Candidates : ksel.outcome[k].kind = "scored"}

\* C16: when at least one candidate is scored, choose_k_sampled returns a
\* candidate of the range 2..min(k_max, sample_size - 1) that was scored, whose
\* score is the highest of all scored candidates, and the smallest such k.
C16_SmallestBestK ==
    (ksel # <<>> /\ ksel.pc = "returned" /\ ksel.n > KMin /\ Scored # {}) =>
       /\ ksel.ret \in Candidates
       /\ ksel.ret \in Scored
       /\ \A k \in Scored : ksel.outcome[k].score <= ksel.outcome[ksel.ret].score
       /\ \A k \in Scored :
             ksel.outcome[k].score = ksel.outcome[ksel.ret].score => ksel.ret <= k

\* the first candidate was skipped, the two after it tie at the best score, and
\* the earlier of the two was returned
C16_Witness ==
    /\ ksel # <<>>
    /\ ksel.pc = "returned"
    /\ Candidates = 2..4
    /\ ksel.outcome[2].kind = "one_cluster"
    /\ ksel.outcome[3].kind = "scored" /\ ksel.outcome[4].kind = "scored"
    /\ ksel.outcome[3].score = ksel.outcome[4].score
    /\ ksel.ret = 3

(***************************************************************************)
(* Two pipeline runs in perform_churn_prediction_large at once: a          *)
(* background job runs in a worker thread, a synchronous request in the    *)
(* event loop, and both assign _model_cache["churn_model"].                *)
(***************************************************************************)
\* the largest number of batches of a run in the model
MaxBatches == 2

RunIds == {1, 2}

\* the model build_churn_model_scaled returns to run r: a new object each time
TrainedModel(r) == r

\* model_tuple = build_churn_model_scaled(X_train, y_train)
RunTrain(r) ==
    /\ runs # <<>>
    /\ runs[r].pc = "start"
    /\ runs' = [runs EXCEPT ![r].pc = "trained", ![r].model_tuple = TrainedModel(r)]
    /\ UNCHANGED <<df, dpc, segments, churn, opps, force_rule_based, ksel, model_cache>>
    /\ UNCHANGED svars

\* _model_cache["churn_model"] = model_tuple
RunCacheModel(r) ==
    /\ runs # <<>>
    /\ runs[r].pc = "trained"
    /\ model_cache' = [model_cache EXCEPT !.churn_model = runs[r].model_tuple]
    /\ runs' = [runs EXCEPT ![r].pc = "predicting"]
    /\ UNCHANGED <<df, dpc, segments, churn, opps, force_rule_based, ksel>>
    /\ UNCHANGED svars

\* a mutant of BatchModel: the batch is scored by the cached model
BatchModelFromCache(run, cache) == cache.churn_model

\* the model of predict_churn_model(model_tuple, X_batch): the local variable
BatchModel(run, cache) == run.model_tuple

\* one pass of the batch loop of run r
RunPredictBatch(r) ==
    /\ runs # <<>>
    /\ runs[r].pc = "predicting"
    /\ Len(runs[r].scoredBy) < runs[r].batches
    /\ runs' = [runs EXCEPT
                  ![r].scoredBy = Append(@, BatchModel(runs[r], model_cache))]
    /\ UNCHANGED <<df, dpc, segments, churn, opps, force_rule_based, ksel, model_cache>>
    /\ UNCHANGED svars

\* the loop of run r is over
RunScored(r) ==
    /\ runs # <<>>
    /\ runs[r].pc = "predicting"
    /\ Len(runs[r].scoredBy) = runs[r].batches
    /\ runs' = [runs EXCEPT ![r].pc = "scored"]
    /\ UNCHANGED <<df, dpc, segments, churn, opps, force_rule_based, ksel, model_cache>>
    /\ UNCHANGED svars

(***************************************************************************)
(* SpecCache: two runs, of which at most one is synchronous, each of       *)
(* 1..MaxBatches batches, in every interleaving of their steps.            *)
(***************************************************************************)
RunKinds == {<<"background", "background">>, <<"background", "synchronous">>,
             <<"synchronous", "background">>}

CacheInit ==
    /\ SvcIdle
    /\ df = <<>>
    /\ dpc = "none"
    /\ segments = <<>>
    /\ churn = <<>>
    /\ opps = <<>>
    /\ force_rule_based = FALSE
    /\ ksel = <<>>
    /\ model_cache = [churn_model |-> 0]
    /\ \E kinds \in RunKinds :
       \E b \in [RunIds -> 1..MaxBatches] :
          runs = [r \in RunIds |->
                    [kind |-> kinds[r], batches |-> b[r], pc |-> "start",
                     model_tuple |-> 0, scoredBy |-> <<>>]]

CacheNext ==
    \E r \in RunIds :
       RunTrain(r) \/ RunCacheModel(r) \/ RunPredictBatch(r) \/ RunScored(r)

SpecCache == CacheInit /\ [][CacheNext]_vars

\* C18: when two runs interleave, every batch of a run is scored by the model
\* this run trained, whatever the other run has put in the cache meanwhile, and
\* so all batches of one run are scored by one model.
C18_RunScoresWithOwnModel ==
    runs # <<>> =>
       \A r \in RunIds :
          \A i \in 1..Len(runs[r].scoredBy) :
             /\ runs[r].scoredBy[i] = TrainedModel(r)
             /\ runs[r].scoredBy[i] = runs[r].scoredBy[1]

\* the other run has replaced the cached model between two batches of run 1,
\* the one a background job and the other a synchronous request
C18_Witness ==
    /\ runs # <<>>
    /\ runs[1].kind = "background" /\ runs[2].kind = "synchronous"
    /\ Len(runs[1].scoredBy) = 2
    /\ model_cache.churn_model = TrainedModel(2)
    /\ Len(runs[2].scoredBy) = 1
    /\ runs[2].pc = "predicting"

====
